---- MODULE Spec2Model ----
(***************************************************************************)
(* asyncapi-rust: the two derive macros of asyncapi-rust-codegen and the   *)
(* code they generate.                                                     *)
(*                                                                         *)
(*   ToAsyncApiMessage  derive_to_asyncapi_message (compile time) and the  *)
(*                      generated asyncapi_message_names(),                *)
(*                      asyncapi_messages() (run time)                     *)
(*   AsyncApi           extract_asyncapi_spec_meta and derive_asyncapi     *)
(*                      (compile time) and the generated asyncapi_spec()   *)
(*                      (run time)                                         *)
(*                                                                         *)
(* Option<T> is a sequence of length at most one, a HashMap is a function  *)
(* on its key set, a Vec is a sequence.                                    *)
(***************************************************************************)
EXTENDS Naturals, Sequences, FiniteSets, TLC

VARIABLES
    decl,        \* the type a derive is applied to (input)
    derived,     \* what derive_to_asyncapi_message made of decl
    messages,    \* the result of decl::asyncapi_messages()
    spec_meta,   \* the AsyncApiSpecMeta of the type AsyncApi is derived on
    expansion,   \* what derive_asyncapi made of spec_meta
    document     \* the result of asyncapi_spec()

vars == <<decl, derived, messages, spec_meta, expansion, document>>

-----------------------------------------------------------------------------
(* Option, Result *)

None == <<>>
Some(x) == <<x>>
IsSome(o) == o # <<>>
Unwrap(o) == o[1]
unwrap_or(o, d) == IF o = None THEN d ELSE o[1]

Err == <<>>
Ok(x) == <<x>>

Range(s) == {s[i] : i \in DOMAIN s}

SeqsUpTo(S, n) == UNION {[1..k -> S] : k \in 0..n}

-----------------------------------------------------------------------------
(* serde_json::Value, as far as a JSON Schema uses it.  A node is a JSON   *)
(* object with the keywords "type", "$ref", "const", "properties" and      *)
(* "oneOf", or the boolean schema `true`.                                  *)

JString(s) == [kind |-> "string", text |-> s]
JNumber(s) == [kind |-> "number", text |-> s]

JBool ==
    [kind |-> "bool", type |-> None, ref |-> None, const |-> None,
     properties |-> None, oneOf |-> None]

JObject(type, ref, const, properties, oneOf) ==
    [kind |-> "object", type |-> type, ref |-> ref, const |-> const,
     properties |-> properties, oneOf |-> oneOf]

\* Value::get(key) on the keys the generated code reads
HasKey(j, key) ==
    /\ j.kind = "object"
    /\ CASE key = "oneOf"      -> j.oneOf # None
         [] key = "properties" -> j.properties # None
         [] key = "const"      -> j.const # None
         [] OTHER              -> FALSE

\* Value::as_str
as_str(v) == IF v.kind = "string" THEN Some(v.text) ELSE None

-----------------------------------------------------------------------------
(* asyncapi-rust-models: Schema, SchemaObject, Message *)

Reference(path) == [variant |-> "Reference", reference |-> path]

SchemaObject(schema_type, properties, const_value, one_of) ==
    [variant |-> "Object",
     schema_type |-> schema_type, properties |-> properties,
     required |-> None, description |-> None, title |-> None,
     enum_values |-> None, const_value |-> const_value, items |-> None,
     additional_properties |-> None, one_of |-> one_of, any_of |-> None,
     all_of |-> None, additional |-> <<>>]

\* serde_json::from_value::<Schema>: Schema is an untagged enum, so the
\* variants are tried in order.  Reference accepts every object that has a
\* string "$ref" and keeps nothing else of it; Object accepts an object whose
\* "properties" and "oneOf" members are themselves Schemas.  A boolean schema
\* matches neither variant.
RECURSIVE from_value(_)
from_value(j) ==
    IF j.kind # "object" THEN Err
    ELSE IF j.ref # None THEN Ok(Reference(Unwrap(j.ref)))
    ELSE
        LET props    == IF j.properties = None THEN <<>> ELSE Unwrap(j.properties)
            branches == IF j.oneOf = None THEN <<>> ELSE Unwrap(j.oneOf)
            failed   == \/ \E k \in DOMAIN props : from_value(props[k]) = Err
                        \/ \E i \in DOMAIN branches : from_value(branches[i]) = Err
        IN  IF failed THEN Err
            ELSE Ok(SchemaObject(
                    IF j.type = None THEN None ELSE Some(JString(Unwrap(j.type))),
                    IF j.properties = None THEN None
                    ELSE Some([k \in DOMAIN props |-> Unwrap(from_value(props[k]))]),
                    j.const,
                    IF j.oneOf = None THEN None
                    ELSE Some([i \in DOMAIN branches |-> Unwrap(from_value(branches[i]))])))

Message(name, title, summary, description, content_type, payload) ==
    [name |-> name, title |-> title, summary |-> summary,
     description |-> description, content_type |-> content_type,
     payload |-> payload]

-----------------------------------------------------------------------------
(* derive_to_asyncapi_message *)

\* AsyncApiMeta::default()
DefaultAsyncApiMeta ==
    [summary |-> None, description |-> None, title |-> None,
     content_type |-> None, triggers_binary |-> FALSE]

MessageMeta(name, m) ==
    [name |-> name, summary |-> m.summary, description |-> m.description,
     title |-> m.title, content_type |-> m.content_type,
     triggers_binary |-> m.triggers_binary]

\* message_metas with the variants in reverse order
message_metas_reversed(d) ==
    IF d.data = "enum"
    THEN [i \in DOMAIN d.variants |->
            LET v == d.variants[Len(d.variants) + 1 - i]
            IN  MessageMeta(unwrap_or(v.serde_rename, v.ident), v.asyncapi)]
    ELSE << MessageMeta(d.ident, d.asyncapi) >>

\* the `messages` vector: one MessageMeta per variant of an enum, one for a struct
message_metas(d) ==
    IF d.data = "enum"
    THEN [i \in DOMAIN d.variants |->
            MessageMeta(unwrap_or(d.variants[i].serde_rename, d.variants[i].ident),
                        d.variants[i].asyncapi)]
    ELSE << MessageMeta(d.ident, d.asyncapi) >>

\* message_titles without the default
message_titles_explicit_only(metas) ==
    [i \in DOMAIN metas |-> metas[i].title]

message_titles(metas) ==
    [i \in DOMAIN metas |->
        IF metas[i].title # None THEN Some(Unwrap(metas[i].title))
        ELSE Some(metas[i].name)]

\* message_summaries in the reverse order of the declarations
message_summaries_reversed(metas) ==
    [i \in DOMAIN metas |-> metas[Len(metas) + 1 - i].summary]

message_summaries(metas) ==
    [i \in DOMAIN metas |-> metas[i].summary]

message_descriptions(metas) == [i \in DOMAIN metas |-> metas[i].description]

\* message_content_types with the flag before the attribute
message_content_types_flag_first(metas) ==
    [i \in DOMAIN metas |->
        IF metas[i].triggers_binary THEN Some("application/octet-stream")
        ELSE IF metas[i].content_type # None THEN Some(Unwrap(metas[i].content_type))
        ELSE Some("application/json")]

message_content_types(metas) ==
    [i \in DOMAIN metas |->
        IF metas[i].content_type # None THEN Some(Unwrap(metas[i].content_type))
        ELSE IF metas[i].triggers_binary THEN Some("application/octet-stream")
        ELSE Some("application/json")]

\* the generated asyncapi_message_names()
asyncapi_message_names(d) ==
    LET metas == message_metas(d) IN [i \in DOMAIN metas |-> metas[i].name]

\* the generated asyncapi_message_count()
asyncapi_message_count(d) == Len(message_metas(d))

\* the generated asyncapi_tag_field()
asyncapi_tag_field(d) == d.serde_tag

\* The branches of a top-level "oneOf" that carry properties.type.const as a
\* string: the only ones the generated code enters into variant_map.
DiscriminatorOf(variant) ==
    IF /\ HasKey(variant, "properties")
       /\ "type" \in DOMAIN Unwrap(variant.properties)
       /\ HasKey(Unwrap(variant.properties)["type"], "const")
    THEN as_str(Unwrap(Unwrap(variant.properties)["type"].const))
    ELSE None

\* variant_schemas: None when the schema has no "oneOf", else the map from
\* discriminator constant to the branch's Schema (a later branch with the same
\* constant replaces an earlier one).  panicked: a branch failed to deserialize.
variant_schemas(schema_json) ==
    IF ~HasKey(schema_json, "oneOf")
    THEN [panicked |-> FALSE, value |-> None]
    ELSE
        LET variants == Unwrap(schema_json.oneOf)
            entered  == {i \in DOMAIN variants : DiscriminatorOf(variants[i]) # None}
            keyOf(i) == Unwrap(DiscriminatorOf(variants[i]))
            last(k)  == CHOOSE i \in entered :
                            /\ keyOf(i) = k
                            /\ \A j \in entered : keyOf(j) = k => j <= i
        IN  IF \E i \in entered : from_value(variants[i]) = Err
            THEN [panicked |-> TRUE, value |-> None]
            ELSE [panicked |-> FALSE,
                  value |-> Some([k \in {keyOf(i) : i \in entered} |->
                                    Unwrap(from_value(variants[last(k)]))])]

\* msg_payload that falls back to the whole schema when no branch matches
msg_payload_or_whole(schema_json, vs, msg_name) ==
    IF vs # None /\ msg_name \in DOMAIN Unwrap(vs) THEN Some(Unwrap(vs)[msg_name])
    ELSE from_value(schema_json)

\* msg_payload of one message
msg_payload(schema_json, vs, msg_name) ==
    IF vs # None
    THEN IF msg_name \in DOMAIN Unwrap(vs) THEN Some(Unwrap(vs)[msg_name]) ELSE None
    ELSE Some(Unwrap(from_value(schema_json)))

\* the generated asyncapi_messages(): the messages, or a panic of one of the
\* two `expect`/`panic!` sites
asyncapi_messages(d) ==
    LET metas  == message_metas(d)
        names  == asyncapi_message_names(d)
        titles == message_titles(metas)
        sums   == message_summaries(metas)
        descs  == message_descriptions(metas)
        ctypes == message_content_types(metas)
        vs     == variant_schemas(d.schema)
    IN  IF vs.panicked THEN [panicked |-> TRUE, value |-> <<>>]
        ELSE IF vs.value = None /\ Len(names) > 0 /\ from_value(d.schema) = Err
        THEN [panicked |-> TRUE, value |-> <<>>]
        ELSE [panicked |-> FALSE,
              value |-> [i \in DOMAIN names |->
                            Message(Some(names[i]), titles[i], sums[i], descs[i],
                                    ctypes[i],
                                    msg_payload(d.schema, vs.value, names[i]))]]

-----------------------------------------------------------------------------
(* asyncapi-rust-models: the document *)

Info(title, version, description) ==
    [title |-> title, version |-> version, description |-> description]

ServerVariable(description, default, enum_values, examples) ==
    [description |-> description, default |-> default,
     enum_values |-> enum_values, examples |-> examples]

Server(host, protocol, pathname, description, variables) ==
    [host |-> host, protocol |-> protocol, pathname |-> pathname,
     description |-> description, variables |-> variables]

Parameter(description, schema) == [description |-> description, schema |-> schema]

Channel(address, msgs, parameters) ==
    [address |-> address, messages |-> msgs, parameters |-> parameters]

MessageRef(path) == [variant |-> "Reference", reference |-> path]

ChannelRef(path) == [reference |-> path]

Operation(action, channel, msgs) ==
    [action |-> action, channel |-> channel, messages |-> msgs]

Components(msgs, schemas) == [messages |-> msgs, schemas |-> schemas]

AsyncApiSpec(info, servers, channels, operations, components) ==
    [asyncapi |-> "3.0.0", info |-> info, servers |-> servers,
     channels |-> channels, operations |-> operations, components |-> components]

-----------------------------------------------------------------------------
(* HashMap::insert over a sequence of [key, value] entries: the map holds   *)
(* each key once, with the value of the last entry that has it.            *)

Entry(k, v) == [key |-> k, value |-> v]

\* a map in which an insert under a key that is present changes nothing
HashMapFirst(entries) ==
    LET first(k) == CHOOSE i \in DOMAIN entries :
                        /\ entries[i].key = k
                        /\ \A j \in DOMAIN entries : entries[j].key = k => i <= j
    IN  [k \in {entries[i].key : i \in DOMAIN entries} |-> entries[first(k)].value]

HashMapOf(entries) ==
    LET last(k) == CHOOSE i \in DOMAIN entries :
                        /\ entries[i].key = k
                        /\ \A j \in DOMAIN entries : entries[j].key = k => j <= i
    IN  [k \in {entries[i].key : i \in DOMAIN entries} |-> entries[last(k)].value]

RECURSIVE Flatten(_)
Flatten(ss) == IF ss = <<>> THEN <<>> ELSE Head(ss) \o Flatten(Tail(ss))

\* every order in which a HashSet of the elements of s can be iterated
IterationOrders(s) ==
    LET S == Range(s) IN {o \in [1..Cardinality(S) -> S] : Range(o) = S}

-----------------------------------------------------------------------------
(* The message types the AsyncApi derive can name: each path resolves to a *)
(* type that has the functions ToAsyncApiMessage generates, and the schema *)
(* schemars gives it.                                                      *)

Leaf == JObject(Some("string"), None, None, None, None)

ConstLeaf(c) == JObject(Some("string"), None, Some(JString(c)), None, None)

\* one branch of the oneOf of an internally tagged enum
Branch(discriminator, c, field) ==
    JObject(Some("object"), None, None,
            Some((discriminator :> ConstLeaf(c)) @@ (field :> Leaf)), None)

\* the fields of the variants, by position
VariantFields == <<"username", "room", "filename", "data">>

\* The schema of an enum tagged #[serde(tag = discriminator)]: one branch per
\* constant.  The first branch is "inline" (a struct variant), "ref" (a newtype
\* variant, whose branch carries the "$ref" of the inner type) or "any" (a
\* struct variant with a field of type serde_json::Value).
UnionSchemaWith(discriminator, consts, flavor) ==
    JObject(None, None, None, None,
            Some([i \in DOMAIN consts |->
                    LET b == Branch(discriminator, consts[i], VariantFields[i])
                    IN  IF i # 1 \/ flavor = "inline" THEN b
                        ELSE IF flavor = "ref"
                        THEN [b EXCEPT !.ref = Some("#/definitions/Inner")]
                        ELSE [b EXCEPT !.properties =
                                Some(Unwrap(b.properties) @@ ("payload" :> JBool))]]))

UnionSchema(discriminator, consts) == UnionSchemaWith(discriminator, consts, "inline")

\* the schema of a struct with named fields
StructSchema == JObject(Some("object"), None, None, Some(("id" :> Leaf) @@ ("text" :> Leaf)), None)

\* the schema of a struct with a field of type serde_json::Value
AnyFieldSchema == JObject(Some("object"), None, None, Some(("id" :> Leaf) @@ ("data" :> JBool)), None)

\* the schema of an enum of unit variants without a tag
StringEnumSchema == JObject(Some("string"), None, None, None, None)

\* the schema of an enum of struct variants without a tag: one branch per
\* variant, whose only property is named after the variant
ExternalSchema(names) ==
    JObject(None, None, None, None,
            Some([i \in DOMAIN names |->
                    JObject(Some("object"), None, None,
                            Some(names[i] :>
                                JObject(Some("object"), None, None,
                                        Some(VariantFields[i] :> Leaf), None)),
                            None)]))

\* the schema of a struct that flattens an enum tagged with discriminator
FlattenedSchema(discriminator, consts, flavor) ==
    [UnionSchemaWith(discriminator, consts, flavor)
        EXCEPT !.type = Some("object"), !.properties = Some("id" :> Leaf)]

Variant(ident, serde_rename, asyncapi) ==
    [ident |-> ident, serde_rename |-> serde_rename, asyncapi |-> asyncapi]

TypeDecl(ident, data, serde_tag, variants, asyncapi, schema) ==
    [ident |-> ident, data |-> data, serde_tag |-> serde_tag,
     variants |-> variants, asyncapi |-> asyncapi, schema |-> schema]

ChatMessage ==
    TypeDecl("ChatMessage", "enum", Some("type"),
             << Variant("Join", Some("join"), DefaultAsyncApiMeta),
                Variant("Leave", Some("leave"), DefaultAsyncApiMeta) >>,
             DefaultAsyncApiMeta, UnionSchema("type", <<"join", "leave">>))

SimpleMessage ==
    TypeDecl("SimpleMessage", "struct", None, <<>>, DefaultAsyncApiMeta, StructSchema)

AnyMessage ==
    TypeDecl("AnyMessage", "struct", None, <<>>, DefaultAsyncApiMeta, AnyFieldSchema)

\* a type whose asyncapi_message_names() and asyncapi_messages() return nothing
Empty ==
    TypeDecl("Empty", "enum", None, <<>>, DefaultAsyncApiMeta, StringEnumSchema)

\* an enum whose second message has a name of ChatMessage, with other
\* metadata and another branch
SystemMessage ==
    TypeDecl("SystemMessage", "enum", Some("type"),
             << Variant("SystemStatus", Some("system.status"), DefaultAsyncApiMeta),
                Variant("Join", Some("join"),
                        [DefaultAsyncApiMeta EXCEPT !.summary = Some("System joins")]) >>,
             DefaultAsyncApiMeta, UnionSchema("type", <<"system.status", "join">>))

\* an enum whose two variants resolve to the same name
EchoMessage ==
    TypeDecl("EchoMessage", "enum", Some("type"),
             << Variant("Echo", Some("echo"), DefaultAsyncApiMeta),
                Variant("Broadcast", Some("echo"),
                        [DefaultAsyncApiMeta EXCEPT !.summary = Some("Echo to all")]) >>,
             DefaultAsyncApiMeta, UnionSchema("type", <<"echo", "echo">>))

Registry ==
    [t \in {"ChatMessage", "SimpleMessage", "AnyMessage", "Empty", "SystemMessage",
            "EchoMessage"} |->
        CASE t = "ChatMessage"   -> ChatMessage
          [] t = "SimpleMessage" -> SimpleMessage
          [] t = "AnyMessage"    -> AnyMessage
          [] t = "Empty"         -> Empty
          [] t = "SystemMessage" -> SystemMessage
          [] t = "EchoMessage"   -> EchoMessage]

-----------------------------------------------------------------------------
(* derive_asyncapi *)

\* input.ident of the type AsyncApi is derived on
ApiIdent == "ChatApi"

\* syn::Error::new_spanned(tokens, message): the error points at the tokens'
\* span and shows the message.  An identifier of the input keeps its own span;
\* a String turned into tokens is a fresh literal at the macro's call site.
IdentSpan(ident) == [at |-> "ident", text |-> ident]
CallSiteSpan == [at |-> "call_site", text |-> ""]

Diagnostic(span, message, args) == [span |-> span, message |-> message, args |-> args]

TitleRequired == "AsyncApi requires a title attribute"
VersionRequired == "AsyncApi requires a version attribute"
InvalidAction == "Invalid action '{}', must be 'send' or 'receive'"

ServerMeta(name, host, protocol, pathname, description, variables) ==
    [name |-> name, host |-> host, protocol |-> protocol, pathname |-> pathname,
     description |-> description, variables |-> variables]

ServerVariableMeta(name, description, default, enum_values, examples) ==
    [name |-> name, description |-> description, default |-> default,
     enum_values |-> enum_values, examples |-> examples]

ChannelMeta(name, address, parameters) ==
    [name |-> name, address |-> address, description |-> None,
     parameters |-> parameters]

ParameterMeta(name, description, schema_type, format) ==
    [name |-> name, description |-> description, schema_type |-> schema_type,
     format |-> format]

OperationMeta(name, action, channel, msgs) ==
    [name |-> name, action |-> action, channel |-> channel,
     description |-> None, messages |-> msgs]

AsyncApiSpecMeta(title, version, description, servers, channels, operations, message_types) ==
    [title |-> title, version |-> version, description |-> description,
     servers |-> servers, channels |-> channels, operations |-> operations,
     message_types |-> message_types]

server_variables(server) ==
    IF server.variables = <<>> THEN None
    ELSE Some(HashMapOf(
            [i \in DOMAIN server.variables |->
                LET var == server.variables[i]
                IN  Entry(var.name,
                          ServerVariable(var.description, var.default,
                              IF var.enum_values = <<>> THEN None ELSE Some(var.enum_values),
                              IF var.examples = <<>> THEN None ELSE Some(var.examples)))]))

\* servers_code without the test for an empty list
servers_code_always_present(meta) ==
    Some(HashMapOf(
            [i \in DOMAIN meta.servers |->
                LET server == meta.servers[i]
                IN  Entry(server.name,
                          Server(server.host, server.protocol, server.pathname,
                                 server.description, server_variables(server)))]))

servers_code(meta) ==
    IF meta.servers = <<>> THEN None
    ELSE Some(HashMapOf(
            [i \in DOMAIN meta.servers |->
                LET server == meta.servers[i]
                IN  Entry(server.name,
                          Server(server.host, server.protocol, server.pathname,
                                 server.description, server_variables(server)))]))

\* parameter_schema without the format
parameter_schema_without_format(param) ==
    IF param.schema_type = None THEN None
    ELSE Some(SchemaObject(Some(JString(Unwrap(param.schema_type))), None, None, None))

parameter_schema(param) ==
    IF param.schema_type = None THEN None
    ELSE Some([SchemaObject(Some(JString(Unwrap(param.schema_type))), None, None, None)
                 EXCEPT !.additional =
                    IF param.format = None THEN <<>>
                    ELSE ("format" :> JString(Unwrap(param.format)))])

channel_parameters(channel) ==
    IF channel.parameters = <<>> THEN None
    ELSE Some(HashMapOf(
            [i \in DOMAIN channel.parameters |->
                LET param == channel.parameters[i]
                IN  Entry(param.name, Parameter(param.description, parameter_schema(param)))]))

\* operations_for_channel without the filter on the channel name
operations_of_any_channel(meta, channel) == meta.operations

operations_for_channel(meta, channel) ==
    SelectSeq(meta.operations, LAMBDA op : op.channel = channel.name)

\* the message types of the operations on the channel, before deduplication
channel_message_types(meta, channel) ==
    Flatten([i \in DOMAIN operations_for_channel(meta, channel) |->
                operations_for_channel(meta, channel)[i].messages])

\* a reference into the schemas of the components
schema_reference(msg_name) ==
    MessageRef("#/components/schemas/" \o msg_name)

message_reference(msg_name) ==
    MessageRef("#/components/messages/" \o msg_name)

\* messages_field that keeps the names of the first iterated type only
channel_messages_first_call(meta, channel, message_calls) ==
    LET ops == operations_for_channel(meta, channel)
    IN  IF ops = <<>> \/ \A i \in DOMAIN ops : ops[i].messages = <<>>
        THEN None
        ELSE Some(HashMapOf(
                LET names == asyncapi_message_names(Registry[message_calls[1]])
                IN  [n \in DOMAIN names |->
                        Entry(names[n], message_reference(names[n]))]))

\* messages_field of a channel; message_calls is the order in which the
\* HashSet of the operations' message types was iterated
channel_messages_field(meta, channel, message_calls) ==
    LET ops == operations_for_channel(meta, channel)
    IN  IF ops = <<>> \/ \A i \in DOMAIN ops : ops[i].messages = <<>>
        THEN None
        ELSE Some(HashMapOf(Flatten(
                [c \in DOMAIN message_calls |->
                    LET names == asyncapi_message_names(Registry[message_calls[c]])
                    IN  [n \in DOMAIN names |->
                            Entry(names[n], message_reference(names[n]))]])))

channels_code(meta, calls) ==
    IF meta.channels = <<>> THEN None
    ELSE Some(HashMapOf(
            [i \in DOMAIN meta.channels |->
                LET channel == meta.channels[i]
                IN  Entry(channel.name,
                          Channel(channel.address,
                                  channel_messages_field(meta, channel, calls[i]),
                                  channel_parameters(channel)))]))

\* action_enum with the two actions exchanged
action_enum_swapped(action) ==
    IF action = "send" THEN Ok("Receive")
    ELSE IF action = "receive" THEN Ok("Send")
    ELSE Err

action_enum(action) ==
    IF action = "send" THEN Ok("Send")
    ELSE IF action = "receive" THEN Ok("Receive")
    ELSE Err

\* operation_messages_field with one reference per listed type, named after
\* the type
operation_messages_per_type(operation) ==
    IF operation.messages = <<>> THEN None
    ELSE Some([t \in DOMAIN operation.messages |->
                message_reference(operation.messages[t])])

operation_messages_field(operation) ==
    IF operation.messages = <<>> THEN None
    ELSE Some(Flatten(
            [t \in DOMAIN operation.messages |->
                LET names == asyncapi_message_names(Registry[operation.messages[t]])
                IN  [n \in DOMAIN names |-> message_reference(names[n])]]))

channel_reference(channel_ref) == ChannelRef("#/channels/" \o channel_ref)

operations_code(meta) ==
    IF meta.operations = <<>> THEN None
    ELSE Some(HashMapOf(
            [i \in DOMAIN meta.operations |->
                LET operation == meta.operations[i]
                IN  Entry(operation.name,
                          Operation(Unwrap(action_enum(operation.action)),
                                    channel_reference(operation.channel),
                                    operation_messages_field(operation)))]))

\* the components block with the messages of the first listed type only
components_code_first_type(meta) ==
    IF meta.message_types = <<>> THEN [panicked |-> FALSE, value |-> None]
    ELSE IF \E i \in DOMAIN meta.message_types :
                asyncapi_messages(Registry[meta.message_types[i]]).panicked
    THEN [panicked |-> TRUE, value |-> None]
    ELSE
        LET msgs == asyncapi_messages(Registry[meta.message_types[1]]).value
            inserted == HashMapOf([m \in DOMAIN msgs |-> Entry(Unwrap(msgs[m].name), msgs[m])])
        IN  [panicked |-> FALSE,
             value |-> Some(Components(
                         IF DOMAIN inserted = {} THEN None ELSE Some(inserted),
                         None))]

\* the components block: asyncapi_messages() of every listed type, in order
components_code(meta) ==
    IF meta.message_types = <<>> THEN [panicked |-> FALSE, value |-> None]
    ELSE IF \E i \in DOMAIN meta.message_types :
                asyncapi_messages(Registry[meta.message_types[i]]).panicked
    THEN [panicked |-> TRUE, value |-> None]
    ELSE
        LET inserted ==
                HashMapOf(Flatten(
                    [i \in DOMAIN meta.message_types |->
                        LET msgs == asyncapi_messages(Registry[meta.message_types[i]]).value
                        IN  [m \in DOMAIN msgs |-> Entry(Unwrap(msgs[m].name), msgs[m])]]))
        IN  [panicked |-> FALSE,
             value |-> Some(Components(
                         IF DOMAIN inserted = {} THEN None ELSE Some(inserted),
                         None))]

\* the diagnostics of the operations whose action is neither send nor receive
action_errors(meta) ==
    LET bad == SelectSeq(meta.operations, LAMBDA op : action_enum(op.action) = Err)
    IN  [i \in DOMAIN bad |-> Diagnostic(CallSiteSpan, InvalidAction, <<bad[i].action>>)]

\* the orders in which the message types of the first n channels can leave
\* their HashSets
RECURSIVE MessageCallOrders(_, _)
MessageCallOrders(meta, n) ==
    IF n = 0 THEN {<<>>}
    ELSE {Append(calls, order) :
            calls \in MessageCallOrders(meta, n - 1),
            order \in IterationOrders(channel_message_types(meta, meta.channels[n]))}

\* derive_asyncapi without the validation of the version
derive_asyncapi_title_only(meta, calls) ==
    IF meta.title = None
    THEN [status |-> "expanded", impl |-> FALSE, message_calls |-> <<>>,
          errors |-> << Diagnostic(IdentSpan(ApiIdent), TitleRequired, <<>>) >>]
    ELSE [status |-> "expanded", impl |-> TRUE, message_calls |-> calls,
          errors |-> action_errors(meta)]

\* derive_asyncapi checking the actions before the title and the version
derive_asyncapi_actions_first(meta, calls) ==
    IF action_errors(meta) # <<>>
    THEN [status |-> "expanded", impl |-> FALSE, message_calls |-> <<>>,
          errors |-> action_errors(meta)]
    ELSE IF meta.title = None
    THEN [status |-> "expanded", impl |-> FALSE, message_calls |-> <<>>,
          errors |-> << Diagnostic(IdentSpan(ApiIdent), TitleRequired, <<>>) >>]
    ELSE IF meta.version = None
    THEN [status |-> "expanded", impl |-> FALSE, message_calls |-> <<>>,
          errors |-> << Diagnostic(IdentSpan(ApiIdent), VersionRequired, <<>>) >>]
    ELSE [status |-> "expanded", impl |-> TRUE, message_calls |-> calls,
          errors |-> <<>>]

\* the macro: the compile errors it emits, whether it emits the impl block
\* with asyncapi_spec(), and the order of the channels' message calls in it
derive_asyncapi(meta, calls) ==
    IF meta.title = None
    THEN [status |-> "expanded", impl |-> FALSE, message_calls |-> <<>>,
          errors |-> << Diagnostic(IdentSpan(ApiIdent), TitleRequired, <<>>) >>]
    ELSE IF meta.version = None
    THEN [status |-> "expanded", impl |-> FALSE, message_calls |-> <<>>,
          errors |-> << Diagnostic(IdentSpan(ApiIdent), VersionRequired, <<>>) >>]
    ELSE [status |-> "expanded", impl |-> TRUE, message_calls |-> calls,
          errors |-> action_errors(meta)]

\* the generated asyncapi_spec()
asyncapi_spec(meta, calls) ==
    LET components == components_code(meta)
    IN  IF components.panicked THEN [status |-> "panicked", value |-> None]
        ELSE [status |-> "returned",
              value |-> Some(AsyncApiSpec(
                          Info(Unwrap(meta.title), Unwrap(meta.version), meta.description),
                          servers_code(meta), channels_code(meta, calls),
                          operations_code(meta), components.value))]

-----------------------------------------------------------------------------
(* Attributes: #[path(item, ...)], and syn's parse_nested_meta              *)

\* literals
LitStr(text) == [kind |-> "str", text |-> text]
LitInt(text) == [kind |-> "int", text |-> text]

\* the items of an attribute: key = literal, key, key(item, ...), key = [..]
NameValue(key, lit) == [key |-> key, shape |-> "value", lit |-> lit]
Flag(key) == [key |-> key, shape |-> "flag"]

Attribute(path, items) == [path |-> path, items |-> items]

\* `nested.value()?` followed by `value.parse::<LitStr>()?` succeeds
IsLitStr(item) == item.shape = "value" /\ item.lit.kind = "str"

\* a closure that parses the string keys and ignores every other key without
\* consuming what follows it
ContinuesOn(item, string_keys) ==
    IF item.key \in string_keys THEN IsLitStr(item) ELSE item.shape = "flag"

\* parse_nested_meta with such a closure: the closure is called on each item
\* in turn until one call returns an error or leaves tokens of its item
\* unconsumed; the result is the items the closure was called on.
parse_nested_meta(items, string_keys) ==
    LET stops == {i \in DOMAIN items : ~ContinuesOn(items[i], string_keys)}
    IN  IF stops = {} THEN items
        ELSE SubSeq(items, 1, CHOOSE i \in stops : \A j \in stops : i <= j)

\* the string a closure assigned last for a key among the items it was called
\* on, if any
Assigned(called, key) ==
    LET hits == {i \in DOMAIN called : called[i].key = key /\ IsLitStr(called[i])}
    IN  IF hits = {} THEN None
        ELSE Some(called[CHOOSE i \in hits : \A j \in hits : j <= i].lit.text)

\* the first attribute of the path in which the key was assigned
FirstAssigned(attrs, path, key) ==
    LET values == [i \in DOMAIN attrs |->
                    IF attrs[i].path # path THEN None
                    ELSE Assigned(parse_nested_meta(attrs[i].items,
                                    {key}), key)]
        hits == {i \in DOMAIN attrs : values[i] # None}
    IN  IF hits = {} THEN None
        ELSE values[CHOOSE i \in hits : \A j \in hits : i <= j]

extract_serde_rename(attrs) == FirstAssigned(attrs, "serde", "rename")

extract_serde_tag(attrs) == FirstAssigned(attrs, "serde", "tag")

\* the items the closure of extract_asyncapi_meta is called on, over all the
\* asyncapi attributes in order
AsyncApiMetaCalled(attrs) ==
    Flatten([i \in DOMAIN attrs |->
                IF attrs[i].path # "asyncapi" THEN <<>>
                ELSE parse_nested_meta(attrs[i].items,
                        {"summary", "description", "title", "content_type"})])

extract_asyncapi_meta(attrs) ==
    LET called == AsyncApiMetaCalled(attrs)
    IN  [summary |-> Assigned(called, "summary"),
         description |-> Assigned(called, "description"),
         title |-> Assigned(called, "title"),
         content_type |-> Assigned(called, "content_type"),
         triggers_binary |-> \E i \in DOMAIN called : called[i].key = "triggers_binary"]

\* What serde itself reads for a key, which is what the schema is made from:
\* the string of the item with that key in a serde attribute.
SerdeValue(attrs, key) ==
    LET items == Flatten([i \in DOMAIN attrs |->
                            IF attrs[i].path = "serde" THEN attrs[i].items ELSE <<>>])
    IN  Assigned(items, key)

\* a variant, and a type, as the derive reads them from their attributes
VariantOf(ident, attrs) ==
    [ident |-> ident, attrs |-> attrs,
     serde_rename |-> extract_serde_rename(attrs),
     asyncapi |-> extract_asyncapi_meta(attrs)]

TypeDeclOf(ident, data, attrs, variants, schema) ==
    [ident |-> ident, data |-> data, attrs |-> attrs,
     serde_tag |-> extract_serde_tag(attrs),
     variants |-> variants,
     asyncapi |-> extract_asyncapi_meta(attrs),
     schema |-> schema]

-----------------------------------------------------------------------------
(* asyncapi_spec_attrs: the attributes of the type AsyncApi is derived on  *)

\* key(item, ...) and key = ["a", "b"]
Nested(key, items) == [key |-> key, shape |-> "nested", items |-> items]
ListValue(key, texts) == [key |-> key, shape |-> "list", texts |-> texts]

\* parse_nested_meta in a block: the items the closure is called on.  A
\* string key needs `= "literal"`, a nested key hands a parenthesized group to
\* the extractor of the nested block (which consumes the group whatever
\* becomes of its content, and consumes nothing when there is no group), a
\* list key needs `= [...]`, and any other key is skipped without consuming
\* what follows it.
parse_nested_block(items, string_keys, nested_keys, list_keys) ==
    LET continues(item) ==
            IF item.key \in string_keys THEN IsLitStr(item)
            ELSE IF item.key \in list_keys THEN item.shape = "list"
            ELSE IF item.key \in nested_keys THEN item.shape \in {"nested", "flag"}
            ELSE item.shape = "flag"
        stops == {i \in DOMAIN items : ~continues(items[i])}
    IN  IF stops = {} THEN items
        ELSE SubSeq(items, 1, CHOOSE i \in stops : \A j \in stops : i <= j)

\* the list a closure assigned last for a key, or the empty Vec
AssignedList(called, key) ==
    LET hits == {i \in DOMAIN called : called[i].key = key /\ called[i].shape = "list"}
    IN  IF hits = {} THEN <<>>
        ELSE called[CHOOSE i \in hits : \A j \in hits : j <= i].texts

extract_server_variable(nested) ==
    IF nested.shape # "nested" THEN None
    ELSE
        LET called == parse_nested_block(nested.items, {"name", "description", "default"},
                                         {}, {"enum_values", "examples"})
            name == Assigned(called, "name")
        IN  IF name = None THEN None
            ELSE Some(ServerVariableMeta(Unwrap(name), Assigned(called, "description"),
                                         Assigned(called, "default"),
                                         AssignedList(called, "enum_values"),
                                         AssignedList(called, "examples")))

\* extract_server giving up the server when a variable block has no name
extract_server_all_named(attr) ==
    LET called == parse_nested_block(attr.items,
                        {"name", "host", "protocol", "pathname", "description"},
                        {"variable"}, {})
        name == Assigned(called, "name")
        host == Assigned(called, "host")
        protocol == Assigned(called, "protocol")
        variables == [i \in DOMAIN called |->
                        IF called[i].key = "variable"
                        THEN extract_server_variable(called[i]) ELSE Some("other")]
    IN  IF name = None \/ host = None \/ protocol = None
            \/ \E i \in DOMAIN variables : variables[i] = None
        THEN None
        ELSE Some(ServerMeta(Unwrap(name), Unwrap(host), Unwrap(protocol),
                             Assigned(called, "pathname"),
                             Assigned(called, "description"),
                             Flatten([i \in DOMAIN called |->
                                        IF called[i].key = "variable"
                                        THEN variables[i] ELSE <<>>])))

extract_server(attr) ==
    LET called == parse_nested_block(attr.items,
                        {"name", "host", "protocol", "pathname", "description"},
                        {"variable"}, {})
        name == Assigned(called, "name")
        host == Assigned(called, "host")
        protocol == Assigned(called, "protocol")
        variables == Flatten([i \in DOMAIN called |->
                                IF called[i].key = "variable"
                                THEN extract_server_variable(called[i]) ELSE <<>>])
    IN  IF name = None \/ host = None \/ protocol = None THEN None
        ELSE Some(ServerMeta(Unwrap(name), Unwrap(host), Unwrap(protocol),
                             Assigned(called, "pathname"),
                             Assigned(called, "description"), variables))

extract_channel_parameter(nested) ==
    IF nested.shape # "nested" THEN None
    ELSE
        LET called == parse_nested_block(nested.items,
                            {"name", "description", "schema_type", "format"}, {}, {})
            name == Assigned(called, "name")
        IN  IF name = None THEN None
            ELSE Some(ParameterMeta(Unwrap(name), Assigned(called, "description"),
                                    Assigned(called, "schema_type"),
                                    Assigned(called, "format")))

extract_channel(attr) ==
    LET called == parse_nested_block(attr.items, {"name", "address", "description"},
                                     {"parameter"}, {})
        name == Assigned(called, "name")
        parameters == Flatten([i \in DOMAIN called |->
                                IF called[i].key = "parameter"
                                THEN extract_channel_parameter(called[i]) ELSE <<>>])
    IN  IF name = None THEN None
        ELSE Some([ChannelMeta(Unwrap(name), Assigned(called, "address"), parameters)
                     EXCEPT !.description = Assigned(called, "description")])

\* extract_operation reads name, action, channel and description; the
\* messages that derive_asyncapi reads in an operation are left empty by it
extract_operation(attr) ==
    LET called == parse_nested_block(attr.items,
                        {"name", "action", "channel", "description"}, {}, {})
        name == Assigned(called, "name")
        action == Assigned(called, "action")
        channel == Assigned(called, "channel")
    IN  IF name = None \/ action = None \/ channel = None THEN None
        ELSE Some([OperationMeta(Unwrap(name), Unwrap(action), Unwrap(channel), <<>>)
                     EXCEPT !.description = Assigned(called, "description")])

\* a comma-separated list of paths, or nothing if an item is no path
extract_message_types(attr) ==
    IF \A i \in DOMAIN attr.items : attr.items[i].shape = "flag"
    THEN Ok([i \in DOMAIN attr.items |-> attr.items[i].key])
    ELSE Err

\* extract_asyncapi_spec_meta visiting the attributes from the last to the first
extract_asyncapi_spec_meta_backwards(declared) ==
    LET attrs == [i \in DOMAIN declared |-> declared[Len(declared) + 1 - i]] IN
    LET called == Flatten([i \in DOMAIN attrs |->
                            IF attrs[i].path # "asyncapi" THEN <<>>
                            ELSE parse_nested_meta(attrs[i].items,
                                    {"title", "version", "description"})])
        of(path, extract(_)) ==
            Flatten([i \in DOMAIN attrs |->
                        IF attrs[i].path = path THEN extract(attrs[i]) ELSE <<>>])
        types == [i \in DOMAIN attrs |->
                    IF attrs[i].path # "asyncapi_messages" THEN <<>>
                    ELSE LET r == extract_message_types(attrs[i])
                         IN  IF r = Err THEN <<>> ELSE Unwrap(r)]
    IN  AsyncApiSpecMeta(Assigned(called, "title"), Assigned(called, "version"),
                         Assigned(called, "description"),
                         of("asyncapi_server", extract_server),
                         of("asyncapi_channel", extract_channel),
                         of("asyncapi_operation", extract_operation),
                         Flatten(types))

extract_asyncapi_spec_meta(attrs) ==
    LET called == Flatten([i \in DOMAIN attrs |->
                            IF attrs[i].path # "asyncapi" THEN <<>>
                            ELSE parse_nested_meta(attrs[i].items,
                                    {"title", "version", "description"})])
        of(path, extract(_)) ==
            Flatten([i \in DOMAIN attrs |->
                        IF attrs[i].path = path THEN extract(attrs[i]) ELSE <<>>])
        types == [i \in DOMAIN attrs |->
                    IF attrs[i].path # "asyncapi_messages" THEN <<>>
                    ELSE LET r == extract_message_types(attrs[i])
                         IN  IF r = Err THEN <<>> ELSE Unwrap(r)]
    IN  AsyncApiSpecMeta(Assigned(called, "title"), Assigned(called, "version"),
                         Assigned(called, "description"),
                         of("asyncapi_server", extract_server),
                         of("asyncapi_channel", extract_channel),
                         of("asyncapi_operation", extract_operation),
                         Flatten(types))

-----------------------------------------------------------------------------
(* Inputs *)

MaxVariants == 2
MaxOperations == 2

\* the identifiers of an enum's variants, by position
VariantIdents == <<"Join", "Leave", "File", "Binary">>

Documented ==
    [summary |-> Some("User leaves a chat room"),
     description |-> Some("Sent when a user exits a room"),
     title |-> Some("Leave Room"), content_type |-> None, triggers_binary |-> FALSE]

BinaryMeta == [DefaultAsyncApiMeta EXCEPT !.triggers_binary = TRUE]

FileMeta == [DefaultAsyncApiMeta EXCEPT !.content_type = Some("application/octet-stream")]

\* content_type and triggers_binary on the same declaration
BinaryXmlMeta == [BinaryMeta EXCEPT !.content_type = Some("application/xml")]

MetaInputs == {DefaultAsyncApiMeta, Documented, BinaryMeta, FileMeta, BinaryXmlMeta}

RenameInputs == {None, Some("join"), Some("leave")}

TagInputs == {None, Some("type"), Some("kind")}

\* the attribute that writes the metadata m
AsyncApiAttr(m) ==
    Attribute("asyncapi",
        (IF m.summary = None THEN <<>>
         ELSE << NameValue("summary", LitStr(Unwrap(m.summary))) >>)
        \o (IF m.description = None THEN <<>>
            ELSE << NameValue("description", LitStr(Unwrap(m.description))) >>)
        \o (IF m.title = None THEN <<>>
            ELSE << NameValue("title", LitStr(Unwrap(m.title))) >>)
        \o (IF m.content_type = None THEN <<>>
            ELSE << NameValue("content_type", LitStr(Unwrap(m.content_type))) >>)
        \o (IF m.triggers_binary THEN << Flag("triggers_binary") >> ELSE <<>>))

\* #[serde(rename = "...")], or nothing
SerdeRenameAttrs(rename) ==
    IF rename = None THEN <<>>
    ELSE << Attribute("serde", << NameValue("rename", LitStr(Unwrap(rename))) >>) >>

\* #[serde(tag = "...")], or nothing
SerdeTagAttrs(tag) ==
    IF tag = None THEN <<>>
    ELSE << Attribute("serde", << NameValue("tag", LitStr(Unwrap(tag))) >>) >>

\* the attributes of a variant
VariantAttrInputs ==
    {SerdeRenameAttrs(r) : r \in RenameInputs}
    \cup {<< AsyncApiAttr(m) >> : m \in MetaInputs \ {DefaultAsyncApiMeta}}
    \cup {SerdeRenameAttrs(Some("join")) \o << AsyncApiAttr(Documented) >>}
    \cup {<< Attribute("serde", << NameValue("alias", LitStr("j")),
                                  NameValue("rename", LitStr("join")) >>) >>,
          << Attribute("serde", << NameValue("rename", LitStr("leave")) >>),
             Attribute("asyncapi", << NameValue("summary", LitInt("42")),
                                      NameValue("description", LitStr("Leave a room")) >>) >>,
          << Attribute("asyncapi", << NameValue("description", LitStr("Leave a room")),
                                      NameValue("summary", LitInt("42")) >>) >>}

\* the attributes of an enum
EnumAttrInputs ==
    {SerdeTagAttrs(t) : t \in TagInputs}
    \cup {<< Attribute("serde", << NameValue("tag", LitStr("type")),
                                  NameValue("rename_all", LitStr("lowercase")) >>) >>,
          << Attribute("serde", << NameValue("rename_all", LitStr("lowercase")),
                                  NameValue("tag", LitStr("type")) >>) >>,
          << Attribute("serde", << NameValue("rename_all", LitStr("lowercase")) >>) >>}

\* the attributes of a struct
StructAttrInputs ==
    {SerdeTagAttrs(t) : t \in TagInputs}
    \cup {<< AsyncApiAttr(m) >> : m \in MetaInputs \ {DefaultAsyncApiMeta}}
    \cup {SerdeRenameAttrs(Some("simple")),
          SerdeRenameAttrs(Some("simple")) \o << AsyncApiAttr(Documented) >>}

VariantLists ==
    UNION {{[i \in 1..k |-> VariantOf(VariantIdents[i], c[i])] :
                c \in [1..k -> VariantAttrInputs]} : k \in 1..MaxVariants}

Flavors == {"inline", "ref", "any"}

\* The schemas schemars can give a declaration.  A struct: named fields, a
\* field of any JSON value, or a flattened tagged enum.  An enum without a tag:
\* unit variants or externally tagged ones.  An enum with a tag: one branch
\* per name serde gives a variant, discriminated by the tag.
SchemaInputs(data, serde_tag, names) ==
    IF data = "struct"
    THEN {StructSchema, AnyFieldSchema}
         \cup {FlattenedSchema(d, c, f) :
                d \in {"type", "kind"},
                c \in {<<"join", "leave">>, <<"SimpleMessage", "leave">>},
                f \in Flavors}
    ELSE IF serde_tag = None
    THEN {StringEnumSchema, ExternalSchema(names)}
    ELSE {UnionSchemaWith(Unwrap(serde_tag), names, f) : f \in Flavors}

\* the resolved names of a list of variants
VariantNames(vs) == [i \in DOMAIN vs |-> unwrap_or(vs[i].serde_rename, vs[i].ident)]

\* #[serde(rename_all = "lowercase")] on an identifier
LowerCase(ident) ==
    CASE ident = "Join"   -> "join"
      [] ident = "Leave"  -> "leave"
      [] ident = "File"   -> "file"
      [] ident = "Binary" -> "binary"
      [] OTHER            -> ident

\* The names serde gives the variants, which are the constants of the schema:
\* the variant's rename, else the identifier, lowercased when the enum carries
\* #[serde(rename_all = "lowercase")], which the derive does not read.
SerdeNames(vs, rename_all) ==
    [i \in DOMAIN vs |->
        IF SerdeValue(vs[i].attrs, "rename") # None
        THEN Unwrap(SerdeValue(vs[i].attrs, "rename"))
        ELSE IF rename_all THEN LowerCase(vs[i].ident)
        ELSE vs[i].ident]

Production ==
    ServerMeta("production", "chat.example.com", "wss", Some("/api/ws/{userId}"),
               Some("Production WebSocket server"),
               << ServerVariableMeta("userId", Some("User ID"), None, <<>>, <<"12", "13">>) >>)

\* a second declaration of the server production, and another server
ProductionAgain ==
    ServerMeta("production", "eu.chat.example.com", "ws", None, None, <<>>)

Staging == ServerMeta("staging", "staging.example.com", "wss", None, None, <<>>)

ServerLists ==
    {<<Production>>, <<Production, Staging>>, <<Production, ProductionAgain>>,
     <<ProductionAgain, Staging, Production>>}

Chat == ChannelMeta("chat", Some("/ws/chat"), <<>>)

ChatAgain == ChannelMeta("chat", None, <<>>)

News ==
    ChannelMeta("news", Some("/ws/news/{userId}"),
                << ParameterMeta("userId", Some("User ID"), Some("integer"), Some("int64")) >>)

ChannelLists == {<<>>, <<Chat>>, <<News>>, <<Chat, News>>, <<Chat, ChatAgain>>}

OpMessageLists ==
    {<<>>, <<"ChatMessage">>, <<"ChatMessage", "ChatMessage">>,
     <<"SimpleMessage", "ChatMessage">>, <<"Empty">>}

MessageTypeLists ==
    {<<>>, <<"ChatMessage">>, <<"ChatMessage", "SimpleMessage">>, <<"AnyMessage">>,
     <<"Empty">>, <<"ChatMessage", "SystemMessage">>, <<"SystemMessage", "ChatMessage">>,
     <<"EchoMessage">>}

\* the names of the operations, by position, and the actions of valid ones
OperationNames == <<"sendMessage", "receiveMessage", "publish", "subscribe">>
OperationActions == <<"send", "receive", "send", "receive">>

\* the operations of a spec whose actions are valid
ValidOperationLists ==
    UNION {{[i \in 1..k |->
                OperationMeta(OperationNames[i], OperationActions[i], c[i][1], c[i][2])] :
            c \in [1..k -> {"chat", "news"} \X OpMessageLists]} :
           k \in 0..MaxOperations}

\* operations of which two carry the same name
Publish == OperationMeta("publish", "send", "chat", <<"ChatMessage">>)
PublishAgain == OperationMeta("publish", "receive", "news", <<>>)
Subscribe == OperationMeta("subscribe", "receive", "chat", <<"SimpleMessage">>)

RepeatedOperationLists ==
    {<<Publish, PublishAgain>>, <<PublishAgain, Publish>>,
     <<Publish, Subscribe, PublishAgain>>}

\* the operations of a spec whose actions may be invalid
AnyOperationLists ==
    UNION {{[i \in 1..k |-> OperationMeta(OperationNames[i], c[i][1], "chat", c[i][2])] :
            c \in [1..k -> {"send", "receive", "broadcast", "Send", ""}
                            \X {<<>>, <<"ChatMessage">>}]} :
           k \in 0..MaxOperations}

\* the chat API of the crate documentation
ChatApi ==
    AsyncApiSpecMeta(Some("Chat API"), Some("1.0.0"), None, <<>>, <<Chat>>,
                     << OperationMeta("sendMessage", "send", "chat", <<"ChatMessage">>),
                        OperationMeta("receiveMessage", "receive", "chat", <<"ChatMessage">>) >>,
                     <<"ChatMessage">>)

\* the chat API with operations send and receive on one channel
SendReceiveApi ==
    AsyncApiSpecMeta(Some("Chat API"), Some("1.0.0"), None, <<>>, <<Chat>>,
                     << OperationMeta("send", "send", "chat", <<"ChatMessage">>),
                        OperationMeta("receive", "receive", "chat", <<"ChatMessage">>) >>,
                     <<"ChatMessage">>)

\* The attributes a type deriving AsyncApi can carry.
MaxAnnotations == 3

Str(key, text) == NameValue(key, LitStr(text))

InfoAttr == Attribute("asyncapi", << Str("title", "Chat API"), Str("version", "1.0.0") >>)

\* a server with three variable blocks, the second without a name
ProductionAttr ==
    Attribute("asyncapi_server",
        << Str("name", "production"), Str("host", "chat.example.com"),
           Nested("variable", << Str("name", "userId"),
                                 ListValue("examples", <<"12", "13">>) >>),
           Nested("variable", << Str("description", "Region"), Str("default", "eu") >>),
           Str("protocol", "wss"),
           Nested("variable", << Str("name", "region"), Str("default", "eu"),
                                 ListValue("enum_values", <<"eu", "us">>) >>),
           Str("pathname", "/api/ws/{userId}") >>)

\* the server blocks: complete, without a host, without a name
ServerAttrInputs ==
    {ProductionAttr,
     Attribute("asyncapi_server", << Str("name", "staging"), Str("protocol", "wss") >>),
     Attribute("asyncapi_server",
        << Str("host", "localhost:8080"), Str("protocol", "ws"),
           Nested("variable", << Str("name", "port") >>) >>)}

\* a channel with three parameter blocks, the second without a name and the
\* third with a format and no schema_type
NewsAttr ==
    Attribute("asyncapi_channel",
        << Str("name", "news"),
           Nested("parameter", << Str("name", "userId"), Str("schema_type", "integer"),
                                  Str("format", "int64") >>),
           Nested("parameter", << Str("description", "Seventh"),
                                  Str("schema_type", "string") >>),
           Str("address", "/ws/news/{userId}/{room}"),
           Nested("parameter", << Str("name", "room"), Str("description", "Room"),
                                  Str("format", "uuid") >>) >>)

\* the channel blocks: complete ones, and one without a name
ChannelAttrInputs ==
    {NewsAttr,
     Attribute("asyncapi_channel",
        << Str("name", "chat"), Str("address", "/ws/chat/{room}"),
           Nested("parameter", << Str("name", "room"), Str("description", "Room"),
                                  Str("schema_type", "string") >>) >>),
     Attribute("asyncapi_channel", << Str("address", "/ws/lost") >>)}

\* the operation blocks: complete ones, and one without an action
OperationAttrInputs ==
    {Attribute("asyncapi_operation",
        << Str("name", "publish"), Str("action", "send"), Str("channel", "chat") >>),
     Attribute("asyncapi_operation",
        << Str("name", "subscribe"), Str("channel", "news"), Str("action", "receive") >>),
     Attribute("asyncapi_operation", << Str("name", "listen"), Str("channel", "chat") >>)}

\* the blocks, a list of message types and an attribute of another macro
Annotations ==
    ServerAttrInputs \cup ChannelAttrInputs \cup OperationAttrInputs
        \cup {Attribute("asyncapi_messages", << Flag("ChatMessage") >>),
              Attribute("doc", << >>)}

-----------------------------------------------------------------------------
(* The state machine: each derive runs once at compile time; what it       *)
(* generated is called once at run time, if the crate compiled.            *)

Pending == [status |-> "pending"]
Uncalled == [status |-> "uncalled", value |-> None]

Start ==
    /\ derived = Pending
    /\ messages = Uncalled
    /\ expansion = Pending
    /\ document = Uncalled

\* a struct, an enum or a union, with the attributes and the schemas it can
\* have; the schema follows what serde reads in the attributes
InitMessage ==
    /\ \/ \E attrs \in StructAttrInputs :
            \E s \in SchemaInputs("struct", SerdeValue(attrs, "tag"), <<"SimpleMessage">>) :
                decl = TypeDeclOf("SimpleMessage", "struct", attrs, <<>>, s)
       \/ \E attrs \in EnumAttrInputs, vs \in VariantLists :
            \E s \in SchemaInputs("enum", SerdeValue(attrs, "tag"),
                                  SerdeNames(vs, SerdeValue(attrs, "rename_all") # None)) :
                decl = TypeDeclOf("ChatMessage", "enum", attrs, vs, s)
       \/ decl = TypeDeclOf("RawMessage", "union", <<>>, <<>>, StructSchema)
    /\ spec_meta = ChatApi
    /\ Start

\* a spec whose title, version and actions are valid
InitAssemble ==
    /\ decl = ChatMessage
    /\ \/ \E cs \in ChannelLists, ops \in ValidOperationLists, mts \in MessageTypeLists :
            spec_meta = AsyncApiSpecMeta(Some("Chat API"), Some("1.0.0"), None,
                                         <<>>, cs, ops, mts)
       \/ spec_meta = SendReceiveApi
       \/ \E ss \in ServerLists, cs \in ChannelLists, ops \in RepeatedOperationLists :
            spec_meta = AsyncApiSpecMeta(Some("Chat API"), Some("1.0.0"), None,
                                         ss, cs, ops, <<"ChatMessage">>)
    /\ Start

\* a spec whose title, version or actions may be invalid
InitValidate ==
    /\ decl = ChatMessage
    /\ \E t \in {None, Some("Chat API")}, v \in {None, Some("1.0.0")},
          ss \in {<<>>, <<Production>>}, cs \in {<<>>, <<Chat>>},
          ops \in AnyOperationLists, mts \in {<<>>, <<"ChatMessage">>} :
            spec_meta = AsyncApiSpecMeta(t, v, Some("A real-time chat API"),
                                         ss, cs, ops, mts)
    /\ Start

\* a type deriving AsyncApi, before its attributes are read
InitExtract ==
    /\ \E attrs \in SeqsUpTo(Annotations, MaxAnnotations) :
            decl = [ident |-> ApiIdent, data |-> "struct", attrs |-> <<InfoAttr>> \o attrs]
    /\ derived = [status |-> "absent"]
    /\ messages = Uncalled
    /\ spec_meta = Pending
    /\ expansion = Pending
    /\ document = Uncalled

Init == InitMessage \/ InitAssemble \/ InitValidate \/ InitExtract

\* extract_asyncapi_spec_meta, the first step of derive_asyncapi
ExtractAsyncapiSpecMeta ==
    /\ spec_meta = Pending
    /\ spec_meta' = extract_asyncapi_spec_meta(decl.attrs)
    /\ UNCHANGED <<decl, derived, messages, expansion, document>>

\* derive_to_asyncapi_message
DeriveToAsyncApiMessage ==
    /\ derived.status = "pending"
    /\ derived' =
        IF decl.data = "union"
        THEN [status |-> "error",
              errors |-> << Diagnostic(IdentSpan(decl.ident),
                                       "ToAsyncApiMessage cannot be derived for unions",
                                       <<>>) >>]
        ELSE [status |-> "expanded",
              message_names |-> asyncapi_message_names(decl),
              message_count |-> asyncapi_message_count(decl),
              tag_field |-> asyncapi_tag_field(decl)]
    /\ UNCHANGED <<decl, messages, spec_meta, expansion, document>>

\* a call of the generated asyncapi_messages()
AsyncapiMessages ==
    /\ derived.status = "expanded"
    /\ messages.status = "uncalled"
    /\ messages' =
        LET r == asyncapi_messages(decl)
        IN  [status |-> IF r.panicked THEN "panicked" ELSE "returned",
             value |-> IF r.panicked THEN None ELSE Some(r.value)]
    /\ UNCHANGED <<decl, derived, spec_meta, expansion, document>>

\* derive_asyncapi
DeriveAsyncApi ==
    /\ spec_meta # Pending
    /\ expansion.status = "pending"
    /\ \E calls \in MessageCallOrders(spec_meta, Len(spec_meta.channels)) :
            expansion' = derive_asyncapi(spec_meta, calls)
    /\ UNCHANGED <<decl, derived, messages, spec_meta, document>>

\* a call of the generated asyncapi_spec(), which exists only if the macro
\* emitted it and the crate compiled
AsyncapiSpec ==
    /\ expansion.status = "expanded"
    /\ expansion.impl
    /\ expansion.errors = <<>>
    /\ document.status = "uncalled"
    /\ document' = asyncapi_spec(spec_meta, expansion.message_calls)
    /\ UNCHANGED <<decl, derived, messages, spec_meta, expansion>>

Next ==
    \/ DeriveToAsyncApiMessage
    \/ AsyncapiMessages
    \/ ExtractAsyncapiSpecMeta
    \/ DeriveAsyncApi
    \/ AsyncapiSpec

Spec == Init /\ [][Next]_vars

\* ToAsyncApiMessage alone, over the type declarations
NextMessage == DeriveToAsyncApiMessage \/ AsyncapiMessages

SpecMessage == InitMessage /\ [][NextMessage]_vars

\* AsyncApi alone, over the specs that pass validation, and over those that
\* may fail it
NextAsyncApi == DeriveAsyncApi \/ AsyncapiSpec

SpecAssemble == InitAssemble /\ [][NextAsyncApi]_vars

SpecValidate == InitValidate /\ [][NextAsyncApi]_vars

\* AsyncApi from the attributes on
NextExtract == ExtractAsyncapiSpecMeta \/ DeriveAsyncApi \/ AsyncapiSpec

SpecExtract == InitExtract /\ [][NextExtract]_vars

-----------------------------------------------------------------------------
(* Properties *)

Returned == document.status = "returned"
Doc == Unwrap(document.value)

\* the message names of the types listed by the operations on channel c
NamesOnChannel(c) ==
    UNION {UNION {Range(asyncapi_message_names(Registry[t])) : t \in Range(op.messages)} :
            op \in {o \in Range(spec_meta.operations) : o.channel = c}}

\* C1: in the returned document, the messages map of a channel has exactly the
\* message names of the types listed by the operations on that channel as its
\* keys, and maps each name n to the reference "#/components/messages/n".
C1_ChannelMessages ==
    (Returned /\ Doc.channels # None) =>
        \A c \in DOMAIN Unwrap(Doc.channels) :
            LET msgs == Unwrap(Doc.channels)[c].messages
            IN  msgs # None =>
                    /\ DOMAIN Unwrap(msgs) = NamesOnChannel(c)
                    /\ \A n \in DOMAIN Unwrap(msgs) :
                            Unwrap(msgs)[n] =
                                [variant |-> "Reference",
                                 reference |-> "#/components/messages/" \o n]

\* C1 witness: channel chat carries join and leave from its own operation,
\* while an operation on another channel lists SimpleMessage.
C1_Witness ==
    /\ Returned
    /\ Doc.channels # None
    /\ "chat" \in DOMAIN Unwrap(Doc.channels)
    /\ Unwrap(Doc.channels)["chat"].messages # None
    /\ DOMAIN Unwrap(Unwrap(Doc.channels)["chat"].messages) = {"join", "leave"}
    /\ \E i \in DOMAIN spec_meta.operations :
            /\ spec_meta.operations[i].channel = "news"
            /\ "SimpleMessage" \in Range(spec_meta.operations[i].messages)

\* C2: in the returned document, the channel reference of every operation is
\* "#/channels/{name}" for a name that is a key of the document's channels.
C2_ChannelReferencesResolve ==
    (Returned /\ Doc.operations # None) =>
        \A o \in DOMAIN Unwrap(Doc.operations) :
            /\ Doc.channels # None
            /\ \E c \in DOMAIN Unwrap(Doc.channels) :
                    Unwrap(Doc.operations)[o].channel.reference = "#/channels/" \o c

Messages == Unwrap(messages.value)
Names == asyncapi_message_names(decl)

Distinct(s) == \A i, j \in DOMAIN s : s[i] = s[j] => i = j

\* the oneOf branches whose property named after the tag carries the constant
BranchesOf(schema, tag, name) ==
    {b \in DOMAIN Unwrap(schema.oneOf) :
        LET props == Unwrap(schema.oneOf)[b].properties
        IN  /\ props # None
            /\ tag \in DOMAIN Unwrap(props)
            /\ Unwrap(props)[tag].const = Some(JString(name))}

\* C3: for an enum with a serde tag, whatever the tag, and pairwise distinct
\* resolved names, asyncapi_messages() returns one message per variant, in
\* order, and message i's payload is the oneOf branch whose tag property carries
\* the constant equal to name i.
C3_TaggedUnionPayloads ==
    (/\ messages.status = "returned"
     /\ decl.data = "enum"
     /\ decl.serde_tag # None
     /\ Distinct(Names)) =>
        /\ Len(Messages) = Len(decl.variants)
        /\ \A i \in DOMAIN Messages :
            /\ Messages[i].name = Some(Names[i])
            /\ \E b \in BranchesOf(decl.schema, Unwrap(decl.serde_tag), Names[i]) :
                    /\ Messages[i].payload # None
                    /\ Messages[i].payload = from_value(Unwrap(decl.schema.oneOf)[b])

\* C4: when the title or the version is missing, the expansion is one compile
\* error at the identifier of the declaring type whose message names the
\* missing field, the impl with asyncapi_spec() is not emitted, and no document
\* is ever produced.
C4_MissingTitleOrVersion ==
    (spec_meta.title = None \/ spec_meta.version = None) =>
        /\ document = Uncalled
        /\ expansion.status = "expanded" =>
            /\ ~expansion.impl
            /\ Len(expansion.errors) = 1
            /\ expansion.errors[1].span = IdentSpan(ApiIdent)
            /\ expansion.errors[1].message =
                    IF spec_meta.title = None THEN TitleRequired ELSE VersionRequired

\* C4 witness: the macro has expanded a spec that has a title, servers,
\* channels, operations and message types, and no version.
C4_Witness ==
    /\ expansion.status = "expanded"
    /\ spec_meta.title # None
    /\ spec_meta.version = None
    /\ spec_meta.servers # <<>>
    /\ spec_meta.channels # <<>>
    /\ Len(spec_meta.operations) = MaxOperations
    /\ spec_meta.message_types # <<>>

\* C5: when an operation's action is neither send nor receive, the expansion
\* carries a compile error that contains the operation's name and the action,
\* and no document is produced.
C5_InvalidActionDiagnostic ==
    (/\ expansion.status = "expanded"
     /\ spec_meta.title # None
     /\ spec_meta.version # None) =>
        \A i \in DOMAIN spec_meta.operations :
            spec_meta.operations[i].action \notin {"send", "receive"} =>
                /\ document = Uncalled
                /\ \E e \in DOMAIN expansion.errors :
                        /\ spec_meta.operations[i].name \in Range(expansion.errors[e].args)
                        /\ spec_meta.operations[i].action \in Range(expansion.errors[e].args)

\* C6: when the title, the version and every action are valid, the call of
\* asyncapi_spec() returns a document; it never aborts.
C6_AlwaysReturnsDocument ==
    (/\ expansion.status = "expanded"
     /\ expansion.errors = <<>>
     /\ document.status # "uncalled") => Returned

\* the position before the references of the t-th listed type
RECURSIVE Offset(_, _)
Offset(types, t) ==
    IF t = 1 THEN 0
    ELSE Offset(types, t - 1) + Len(asyncapi_message_names(Registry[types[t - 1]]))

\* refs is the concatenation, over the listed types, of one reference per name
IsConcatenation(refs, types) ==
    /\ Len(refs) = Offset(types, Len(types) + 1)
    /\ \A t \in DOMAIN types :
        LET names == asyncapi_message_names(Registry[types[t]])
        IN  \A n \in DOMAIN names :
                refs[Offset(types, t) + n] =
                    [variant |-> "Reference",
                     reference |-> "#/components/messages/" \o names[n]]

\* the operation of the document that the i-th declared operation produced,
\* which is there if no later declaration has the same name
ProducedBy(i) == Unwrap(Doc.operations)[spec_meta.operations[i].name]

Surviving(i) ==
    \A j \in DOMAIN spec_meta.operations :
        spec_meta.operations[j].name = spec_meta.operations[i].name => j <= i

C9_StructWholeSchema ==
    (/\ messages.status = "returned"
     /\ decl.data = "struct"
     /\ from_value(decl.schema) # Err) =>
        /\ Len(Messages) = 1
        /\ Messages[1].name = Some(decl.ident)
        /\ Messages[1].payload = Some(Unwrap(from_value(decl.schema)))

\* C10: for an enum whose schema has no oneOf, asyncapi_messages() returns one
\* message per variant, with its name, and every payload is absent.
C10_NoDisjunctionAbsentPayload ==
    (/\ messages.status = "returned"
     /\ decl.data = "enum"
     /\ ~HasKey(decl.schema, "oneOf")) =>
        /\ Len(Messages) = Len(decl.variants)
        /\ \A i \in DOMAIN Messages :
            /\ Messages[i].name = Some(Names[i])
            /\ Messages[i].payload = None

\* the messages the derive declares: names, titles, summaries, descriptions
\* and content types, by position
MetadataOf(msg) == [msg EXCEPT !.payload = None]

DeclaredMetadata ==
    LET metas == message_metas(decl)
    IN  [i \in DOMAIN metas |->
            [name |-> Some(metas[i].name),
             title |-> Some(unwrap_or(metas[i].title, metas[i].name)),
             summary |-> metas[i].summary,
             description |-> metas[i].description,
             content_type |-> message_content_types(metas)[i],
             payload |-> None]]

\* C11: for an enum with a serde tag whose schema has a oneOf, the call
\* returns unless a branch cannot be translated; every message is returned at
\* its position with its name and metadata; a name that is the constant of the
\* tag property of no branch has an absent payload, and under the tag "type" a
\* name that is the constant of a branch has that branch as its payload.
C11_UnmatchedNameAbsentPayload ==
    (/\ messages.status # "uncalled"
     /\ decl.data = "enum"
     /\ decl.serde_tag # None
     /\ HasKey(decl.schema, "oneOf")) =>
        /\ (\A b \in DOMAIN Unwrap(decl.schema.oneOf) :
                from_value(Unwrap(decl.schema.oneOf)[b]) # Err)
            => messages.status = "returned"
        /\ messages.status = "returned" =>
            /\ [i \in DOMAIN Messages |-> MetadataOf(Messages[i])] = DeclaredMetadata
            /\ \A i \in DOMAIN Messages :
                LET matching == BranchesOf(decl.schema, Unwrap(decl.serde_tag), Names[i])
                IN  /\ matching = {} => Messages[i].payload = None
                    /\ (matching # {} /\ decl.serde_tag = Some("type")) =>
                            \E b \in matching :
                                /\ Messages[i].payload # None
                                /\ Messages[i].payload =
                                        from_value(Unwrap(decl.schema.oneOf)[b])

\* C11 witness: Join, which serde lowercases, is the constant of no branch and
\* has no payload; leave, renamed on the variant, has its branch as payload.
C11_Witness ==
    /\ messages.status = "returned"
    /\ decl.data = "enum"
    /\ decl.serde_tag = Some("type")
    /\ Names = <<"Join", "leave">>
    /\ BranchesOf(decl.schema, "type", "Join") = {}
    /\ BranchesOf(decl.schema, "type", "leave") = {2}
    /\ Messages[1].payload = None
    /\ Messages[2].payload # None

\* the #[asyncapi(...)] metadata of the declaration behind the i-th message
DeclarationMeta(i) == IF decl.data = "enum" THEN decl.variants[i].asyncapi ELSE decl.asyncapi

\* C12: the content type of every returned message is the content_type
\* attribute of its declaration if there is one, else
\* "application/octet-stream" if triggers_binary is set, else
\* "application/json"; it is never absent, whatever the schema and payload.
C12_ContentTypePrecedence ==
    messages.status = "returned" =>
        \A i \in DOMAIN Messages :
            /\ Messages[i].content_type # None
            /\ Unwrap(Messages[i].content_type) =
                IF DeclarationMeta(i).content_type # None
                THEN Unwrap(DeclarationMeta(i).content_type)
                ELSE IF DeclarationMeta(i).triggers_binary
                THEN "application/octet-stream"
                ELSE "application/json"

\* C12 witness: of two messages without payload, the first carries both
\* content_type and triggers_binary and has the attribute's content type, the
\* second carries the flag alone.
C12_Witness ==
    /\ messages.status = "returned"
    /\ Len(Messages) = 2
    /\ DeclarationMeta(1) = BinaryXmlMeta
    /\ DeclarationMeta(2) = BinaryMeta
    /\ Messages[1].content_type = Some("application/xml")
    /\ Messages[2].content_type = Some("application/octet-stream")
    /\ Messages[1].payload = None

\* the attributes and the identifier of the declaration behind the i-th message
DeclarationAttrs(i) == IF decl.data = "enum" THEN decl.variants[i].attrs ELSE decl.attrs
DeclarationIdent(i) == IF decl.data = "enum" THEN decl.variants[i].ident ELSE decl.ident

\* C13: the name of every message the derive declares is the serde rename
\* written on its declaration (the struct, or the variant) when there is one,
\* and the identifier of the declaration otherwise.
C13_NameResolution ==
    derived.status = "expanded" =>
        \A i \in DOMAIN derived.message_names :
            derived.message_names[i] =
                unwrap_or(SerdeValue(DeclarationAttrs(i), "rename"), DeclarationIdent(i))

\* C14: for an enum the derive declares one message name per variant, in the
\* order of the variants, each the name of its variant; for a struct it
\* declares one name; asyncapi_message_count() is the length of the list.
C14_NamesPerVariantInOrder ==
    derived.status = "expanded" =>
        /\ derived.message_count = Len(derived.message_names)
        /\ decl.data = "struct" => Len(derived.message_names) = 1
        /\ decl.data = "enum" =>
            /\ Len(derived.message_names) = Len(decl.variants)
            /\ \A i \in DOMAIN decl.variants :
                derived.message_names[i] =
                    unwrap_or(extract_serde_rename(decl.variants[i].attrs),
                              decl.variants[i].ident)

\* C14 witness: an enum with as many variants as the bound allows, the first
\* named by its identifier and the second by its rename.
C14_Witness ==
    /\ derived.status = "expanded"
    /\ decl.data = "enum"
    /\ Len(decl.variants) = MaxVariants
    /\ derived.message_count = MaxVariants
    /\ derived.message_names[1] = "Join"
    /\ derived.message_names[2] = "leave"

\* the messages asyncapi_messages() returns for the listed types, in the order
\* of the list and, within a type, of the messages
GeneratedMessages ==
    Flatten([t \in DOMAIN spec_meta.message_types |->
                asyncapi_messages(Registry[spec_meta.message_types[t]]).value])

\* C15: in the returned document, components.messages has one entry per
\* distinct name among the messages generated by the listed types, keyed by
\* that name, and the entry is the last generated message of that name; a
\* repeated name is no failure.
C15_ComponentsLastWins ==
    (Returned /\ spec_meta.message_types # <<>>) =>
        LET generated == GeneratedMessages
            names == {Unwrap(generated[k].name) : k \in DOMAIN generated}
        IN  /\ Doc.components # None
            /\ names = {} => Unwrap(Doc.components).messages = None
            /\ names # {} =>
                /\ Unwrap(Doc.components).messages # None
                /\ DOMAIN Unwrap(Unwrap(Doc.components).messages) = names
                /\ \A n \in names :
                    \E k \in DOMAIN generated :
                        /\ generated[k].name = Some(n)
                        /\ \A j \in DOMAIN generated : generated[j].name = Some(n) => j <= k
                        /\ Unwrap(Unwrap(Doc.components).messages)[n] = generated[k]

\* C15 witness: ChatMessage and then SystemMessage are listed, both generate
\* a message join, and the entry join is the one of SystemMessage.
C15_Witness ==
    /\ Returned
    /\ spec_meta.message_types = <<"ChatMessage", "SystemMessage">>
    /\ DOMAIN Unwrap(Unwrap(Doc.components).messages) = {"join", "leave", "system.status"}
    /\ Unwrap(Unwrap(Doc.components).messages)["join"].summary = Some("System joins")

WrittenItems(i) ==
    LET attrs == DeclarationAttrs(i)
    IN  Flatten([a \in DOMAIN attrs |->
                    IF attrs[a].path = "asyncapi" THEN attrs[a].items ELSE <<>>])

\* C17: in the #[asyncapi(...)] block of a message, a field with a
\* wrongly-typed literal is left unset and every well-formed field of the
\* block, before or after it, is extracted: each string field of the metadata
\* is the last well-formed value written for it, and is unset only if none
\* was written.
C17_MalformedFieldAlone ==
    derived.status = "expanded" =>
        \A i \in DOMAIN derived.message_names :
            \A key \in {"summary", "description", "title", "content_type"} :
                DeclarationMeta(i)[key] = Assigned(WrittenItems(i), key)

\* the last declaration named n in a list of servers, channels or operations
LastNamed(metas, n) ==
    metas[CHOOSE i \in DOMAIN metas :
            /\ metas[i].name = n
            /\ \A j \in DOMAIN metas : metas[j].name = n => j <= i]

NamesOf(metas) == {metas[i].name : i \in DOMAIN metas}

\* C18: in the returned document the servers, the channels and the operations
\* each have one entry per declared name, and the entry of a name is built
\* from the last declaration of that name; a repeated name is no failure.
C18_LaterDeclarationWins ==
    Returned =>
        /\ spec_meta.servers # <<>> =>
            /\ Doc.servers # None
            /\ DOMAIN Unwrap(Doc.servers) = NamesOf(spec_meta.servers)
            /\ \A n \in NamesOf(spec_meta.servers) :
                LET server == LastNamed(spec_meta.servers, n)
                    entry == Unwrap(Doc.servers)[n]
                IN  /\ entry.host = server.host
                    /\ entry.protocol = server.protocol
                    /\ entry.pathname = server.pathname
                    /\ entry.description = server.description
                    /\ (entry.variables = None) = (server.variables = <<>>)
        /\ spec_meta.channels # <<>> =>
            /\ Doc.channels # None
            /\ DOMAIN Unwrap(Doc.channels) = NamesOf(spec_meta.channels)
            /\ \A n \in NamesOf(spec_meta.channels) :
                LET channel == LastNamed(spec_meta.channels, n)
                    entry == Unwrap(Doc.channels)[n]
                IN  /\ entry.address = channel.address
                    /\ (entry.parameters = None) = (channel.parameters = <<>>)
        /\ spec_meta.operations # <<>> =>
            /\ Doc.operations # None
            /\ DOMAIN Unwrap(Doc.operations) = NamesOf(spec_meta.operations)
            /\ \A n \in NamesOf(spec_meta.operations) :
                LET operation == LastNamed(spec_meta.operations, n)
                    entry == Unwrap(Doc.operations)[n]
                IN  /\ entry.action = (IF operation.action = "send" THEN "Send" ELSE "Receive")
                    /\ entry.channel.reference = "#/channels/" \o operation.channel
                    /\ (entry.messages = None) = (operation.messages = <<>>)

\* C18 witness: production is declared twice among three servers, chat twice
\* among the channels and publish twice among three operations; each map has
\* the later declaration, and staging and subscribe are there as declared.
C18_Witness ==
    /\ Returned
    /\ spec_meta.servers = <<ProductionAgain, Staging, Production>>
    /\ spec_meta.channels = <<Chat, ChatAgain>>
    /\ spec_meta.operations = <<Publish, Subscribe, PublishAgain>>
    /\ DOMAIN Unwrap(Doc.servers) = {"production", "staging"}
    /\ Unwrap(Doc.servers)["production"].host = "chat.example.com"
    /\ Unwrap(Doc.servers)["staging"].host = "staging.example.com"
    /\ Unwrap(Doc.channels)["chat"].address = None
    /\ DOMAIN Unwrap(Doc.operations) = {"publish", "subscribe"}
    /\ Unwrap(Doc.operations)["publish"].action = "Receive"
    /\ Unwrap(Doc.operations)["subscribe"].channel.reference = "#/channels/chat"

\* C19: in the returned document each of servers, channels, operations and
\* components is absent exactly when the spec declares no server, no channel,
\* no operation and no message type respectively; a present servers, channels
\* or operations map is not empty; a spec with a title and a version only has
\* none of the four.
C19_SectionsAbsentIffEmpty ==
    Returned =>
        /\ (Doc.servers = None) = (spec_meta.servers = <<>>)
        /\ (Doc.channels = None) = (spec_meta.channels = <<>>)
        /\ (Doc.operations = None) = (spec_meta.operations = <<>>)
        /\ (Doc.components = None) = (spec_meta.message_types = <<>>)
        /\ Doc.servers # None => DOMAIN Unwrap(Doc.servers) # {}
        /\ Doc.channels # None => DOMAIN Unwrap(Doc.channels) # {}
        /\ Doc.operations # None => DOMAIN Unwrap(Doc.operations) # {}

\* C19 witness: a spec with a title and a version only returned a document
\* without servers, channels, operations and components.
C19_Witness ==
    /\ Returned
    /\ spec_meta.servers = <<>> /\ spec_meta.channels = <<>>
    /\ spec_meta.operations = <<>> /\ spec_meta.message_types = <<>>
    /\ Doc.info.title = "Chat API" /\ Doc.info.version = "1.0.0"
    /\ Doc.servers = None /\ Doc.channels = None
    /\ Doc.operations = None /\ Doc.components = None

\* C20: in the returned document every operation refers to its channel by
\* the reference "#/channels/" followed by the channel name its declaration
\* gives, and has the action Send when the declaration says "send" and
\* Receive when it says "receive".
C20_OperationChannelAndAction ==
    (Returned /\ Doc.operations # None) =>
        \A n \in DOMAIN Unwrap(Doc.operations) :
            \E i \in DOMAIN spec_meta.operations :
                LET operation == spec_meta.operations[i]
                    entry == Unwrap(Doc.operations)[n]
                IN  /\ operation.name = n
                    /\ entry.channel = [reference |-> "#/channels/" \o operation.channel]
                    /\ operation.action = "send" => entry.action = "Send"
                    /\ operation.action = "receive" => entry.action = "Receive"

\* C20 witness: sendMessage sends on chat and receiveMessage receives on news.
C20_Witness ==
    /\ Returned
    /\ Len(spec_meta.operations) = 2
    /\ spec_meta.operations[1].action = "send" /\ spec_meta.operations[1].channel = "chat"
    /\ spec_meta.operations[2].action = "receive" /\ spec_meta.operations[2].channel = "news"
    /\ Unwrap(Doc.operations)["sendMessage"].action = "Send"
    /\ Unwrap(Doc.operations)["sendMessage"].channel.reference = "#/channels/chat"
    /\ Unwrap(Doc.operations)["receiveMessage"].action = "Receive"
    /\ Unwrap(Doc.operations)["receiveMessage"].channel.reference = "#/channels/news"

\* C21: the outcome of asyncapi_spec() is a function of the metadata and the
\* schemas of the types.  The order in which the set of a channel's message
\* types was iterated when the macro expanded reaches the document through
\* the messages map of that channel only: whatever that order, the map is the
\* one of the returned document.
C21_Deterministic ==
    Returned =>
        \A i \in DOMAIN spec_meta.channels :
            \A order \in IterationOrders(
                            channel_message_types(spec_meta, spec_meta.channels[i])) :
                channel_messages_field(spec_meta, spec_meta.channels[i], order) =
                    Unwrap(Doc.channels)[spec_meta.channels[i].name].messages

\* C21 witness: a document was returned for a channel whose operations list
\* two types, from the expansion that iterated SimpleMessage last.
C21_Witness ==
    /\ Returned
    /\ \E i \in DOMAIN spec_meta.channels :
        /\ Cardinality(IterationOrders(
                channel_message_types(spec_meta, spec_meta.channels[i]))) = 2
        /\ expansion.message_calls[i] = <<"ChatMessage", "SimpleMessage">>
        /\ DOMAIN Unwrap(Unwrap(Doc.channels)[spec_meta.channels[i].name].messages) =
                {"join", "leave", "SimpleMessage"}

\* C22: the title of every returned message is the title attribute the derive
\* read on its declaration when there is one, and the name of the message
\* otherwise; it is never absent.
C22_TitleDefault ==
    messages.status = "returned" =>
        \A i \in DOMAIN Messages :
            /\ Messages[i].title # None
            /\ Messages[i].title =
                IF DeclarationMeta(i).title # None THEN DeclarationMeta(i).title
                ELSE Some(derived.message_names[i])

\* C22 witness: of two messages, the first is renamed and has no title
\* attribute, so that its title is the rename; the second has its attribute.
C22_Witness ==
    /\ messages.status = "returned"
    /\ Len(Messages) = 2
    /\ decl.variants[1].serde_rename = Some("join")
    /\ DeclarationMeta(1).title = None
    /\ Messages[1].title = Some("join")
    /\ DeclarationMeta(2).title = Some("Leave Room")
    /\ Messages[2].title = Some("Leave Room")
    /\ Messages[2].name # Some("Leave Room")

\* the extraction of the attributes has happened
Extracted == spec_meta # Pending /\ "attrs" \in DOMAIN decl /\ decl.ident = ApiIdent

\* the blocks of one kind among the attributes, in declaration order
BlocksOf(path) == SelectSeq(decl.attrs, LAMBDA a : a.path = path)

\* C23: every asyncapi_server, asyncapi_channel and asyncapi_operation block
\* contributes one record to its list of the extracted metadata, whether or
\* not it has its name, host, protocol, action and channel.
C23_NoRequiredFieldValidation ==
    Extracted =>
        /\ Len(spec_meta.servers) = Len(BlocksOf("asyncapi_server"))
        /\ Len(spec_meta.channels) = Len(BlocksOf("asyncapi_channel"))
        /\ Len(spec_meta.operations) = Len(BlocksOf("asyncapi_operation"))

\* the nested blocks of a key in a block that have a name, in declaration order
Named(attr, key) ==
    SelectSeq(attr.items,
              LAMBDA item : /\ item.key = key
                            /\ item.shape = "nested"
                            /\ Assigned(item.items, "name") # None)

\* the blocks of a kind that have the fields of `required`
Complete(path, required) ==
    SelectSeq(BlocksOf(path),
              LAMBDA a : \A key \in required : Assigned(a.items, key) # None)

\* C24: a variable block of a server, or a parameter block of a channel, that
\* has no name is dropped alone: the server or channel is extracted with its
\* own fields and with its named nested blocks, all of them and in
\* declaration order, each with its fields; and nothing fails afterwards.
C24_UnnamedNestedDroppedAlone ==
    Extracted =>
        LET servers == Complete("asyncapi_server", {"name", "host", "protocol"})
            channels == Complete("asyncapi_channel", {"name"})
        IN  /\ Len(spec_meta.servers) = Len(servers)
            /\ \A k \in DOMAIN servers :
                LET variables == Named(servers[k], "variable")
                    server == spec_meta.servers[k]
                IN  /\ Some(server.name) = Assigned(servers[k].items, "name")
                    /\ Some(server.host) = Assigned(servers[k].items, "host")
                    /\ Some(server.protocol) = Assigned(servers[k].items, "protocol")
                    /\ server.pathname = Assigned(servers[k].items, "pathname")
                    /\ Len(server.variables) = Len(variables)
                    /\ \A v \in DOMAIN variables :
                        /\ Some(server.variables[v].name) =
                                Assigned(variables[v].items, "name")
                        /\ server.variables[v].default =
                                Assigned(variables[v].items, "default")
            /\ Len(spec_meta.channels) = Len(channels)
            /\ \A k \in DOMAIN channels :
                LET parameters == Named(channels[k], "parameter")
                    channel == spec_meta.channels[k]
                IN  /\ Some(channel.name) = Assigned(channels[k].items, "name")
                    /\ channel.address = Assigned(channels[k].items, "address")
                    /\ Len(channel.parameters) = Len(parameters)
                    /\ \A q \in DOMAIN parameters :
                        /\ Some(channel.parameters[q].name) =
                                Assigned(parameters[q].items, "name")
                        /\ channel.parameters[q].schema_type =
                                Assigned(parameters[q].items, "schema_type")
            /\ expansion # Pending => (expansion.impl /\ expansion.errors = <<>>)
            /\ document.status # "panicked"

\* C24 witness: the production server and the news channel, each declared
\* with an unnamed nested block between two named ones, are in the returned
\* document with the two named ones.
C24_Witness ==
    /\ Extracted
    /\ Returned
    /\ decl.attrs = <<InfoAttr, ProductionAttr, NewsAttr>>
    /\ Len(ProductionAttr.items) = 7
    /\ [v \in 1..2 |-> spec_meta.servers[1].variables[v].name] = <<"userId", "region">>
    /\ spec_meta.servers[1].pathname = Some("/api/ws/{userId}")
    /\ [q \in 1..2 |-> spec_meta.channels[1].parameters[q].name] = <<"userId", "room">>
    /\ spec_meta.channels[1].address = Some("/ws/news/{userId}/{room}")
    /\ DOMAIN Unwrap(Unwrap(Doc.servers)["production"].variables) = {"userId", "region"}
    /\ DOMAIN Unwrap(Unwrap(Doc.channels)["news"].parameters) = {"userId", "room"}

\* the names of a list of records, and of a list of blocks
RecordNames(records) == [k \in DOMAIN records |-> records[k].name]
BlockNames(blocks) == [k \in DOMAIN blocks |-> Unwrap(Assigned(blocks[k].items, "name"))]

DocParameter(k, q) ==
    Unwrap(Unwrap(Doc.channels)[spec_meta.channels[k].name].parameters)
        [spec_meta.channels[k].parameters[q].name]

\* every field of a schema object but type and the additional ones is absent
OnlyTypeAndAdditional(schema) ==
    /\ schema.variant = "Object"
    /\ \A f \in {"properties", "required", "description", "title", "enum_values",
                 "const_value", "items", "additional_properties", "one_of", "any_of",
                 "all_of"} : schema[f] = None

FormatOnly(format) ==
    IF format = None THEN <<>> ELSE [f \in {"format"} |-> JString(Unwrap(format))]

\* C26 as stated: every parameter has a schema object, with the type
\* schema_type, format as only additional field exactly when a format is
\* declared, and no other field; and it has the declared description.
C26_SchemaForEveryParameter ==
    Returned =>
        \A k \in DOMAIN spec_meta.channels :
            \A q \in DOMAIN spec_meta.channels[k].parameters :
                LET param == spec_meta.channels[k].parameters[q]
                IN  /\ DocParameter(k, q).description = param.description
                    /\ DocParameter(k, q).schema # None
                    /\ OnlyTypeAndAdditional(Unwrap(DocParameter(k, q).schema))
                    /\ Unwrap(DocParameter(k, q).schema).schema_type =
                            (IF param.schema_type = None THEN None
                             ELSE Some(JString(Unwrap(param.schema_type))))
                    /\ Unwrap(DocParameter(k, q).schema).additional =
                            FormatOnly(param.format)

\* C26: every parameter has the declared description; a parameter with a
\* schema_type has a schema object with that type, format as only additional
\* field exactly when a format is declared, and no other field; a parameter
\* without a schema_type has no schema, whether or not it has a format.
C26_SchemaFromTypeAndFormat ==
    Returned =>
        \A k \in DOMAIN spec_meta.channels :
            \A q \in DOMAIN spec_meta.channels[k].parameters :
                LET param == spec_meta.channels[k].parameters[q]
                IN  /\ DocParameter(k, q).description = param.description
                    /\ param.schema_type = None => DocParameter(k, q).schema = None
                    /\ param.schema_type # None =>
                        /\ DocParameter(k, q).schema # None
                        /\ OnlyTypeAndAdditional(Unwrap(DocParameter(k, q).schema))
                        /\ Unwrap(DocParameter(k, q).schema).schema_type =
                                Some(JString(Unwrap(param.schema_type)))
                        /\ Unwrap(DocParameter(k, q).schema).additional =
                                FormatOnly(param.format)

\* C26 witness: news has userId, an integer of format int64, and room, which
\* has a format and no schema_type; chat has room, a string without format.
C26_Witness ==
    /\ Extracted
    /\ Returned
    /\ RecordNames(spec_meta.channels) = <<"news", "chat">>
    /\ Unwrap(DocParameter(1, 1).schema).schema_type = Some(JString("integer"))
    /\ Unwrap(DocParameter(1, 1).schema).additional = [f \in {"format"} |-> JString("int64")]
    /\ spec_meta.channels[1].parameters[2].format = Some("uuid")
    /\ DocParameter(1, 2).schema = None
    /\ DocParameter(1, 2).description = Some("Room")
    /\ Unwrap(DocParameter(2, 1).schema).schema_type = Some(JString("string"))
    /\ Unwrap(DocParameter(2, 1).schema).additional = <<>>

\* every type an operation lists is among the message types of the spec
OperationTypesListed ==
    \A i \in DOMAIN spec_meta.operations :
        Range(spec_meta.operations[i].messages) \subseteq Range(spec_meta.message_types)

\* the reference points at a message of the components
ResolvesToMessage(ref) ==
    /\ Doc.components # None
    /\ Unwrap(Doc.components).messages # None
    /\ \E n \in DOMAIN Unwrap(Unwrap(Doc.components).messages) :
            ref.reference = "#/components/messages/" \o n

\* C27: when every type listed by an operation is also a message type of the
\* spec, every message reference of the returned document, in the messages
\* list of an operation or in the messages map of a channel, points at a key
\* of components.messages.
C27_MessageReferencesResolve ==
    (Returned /\ OperationTypesListed) =>
        /\ Doc.operations # None =>
            \A o \in DOMAIN Unwrap(Doc.operations) :
                LET refs == Unwrap(Doc.operations)[o].messages
                IN  refs # None =>
                        \A r \in DOMAIN Unwrap(refs) : ResolvesToMessage(Unwrap(refs)[r])
        /\ Doc.channels # None =>
            \A c \in DOMAIN Unwrap(Doc.channels) :
                LET refs == Unwrap(Doc.channels)[c].messages
                IN  refs # None =>
                        \A n \in DOMAIN Unwrap(refs) :
                            /\ ResolvesToMessage(Unwrap(refs)[n])
                            /\ n \in DOMAIN Unwrap(Unwrap(Doc.components).messages)

\* C27 witness: ChatMessage and SystemMessage, which both name a message
\* join, are the message types; an operation on chat lists ChatMessage and
\* its reference to join resolves, as does the one of the channel.
C27_Witness ==
    /\ Returned
    /\ OperationTypesListed
    /\ spec_meta.message_types = <<"ChatMessage", "SystemMessage">>
    /\ \E i \in DOMAIN spec_meta.operations :
        /\ spec_meta.operations[i].channel = "chat"
        /\ spec_meta.operations[i].messages = <<"ChatMessage">>
        /\ Unwrap(ProducedBy(i).messages)[1].reference = "#/components/messages/join"
    /\ Doc.channels # None
    /\ "chat" \in DOMAIN Unwrap(Doc.channels)
    /\ Unwrap(Doc.channels)["chat"].messages # None
    /\ "join" \in DOMAIN Unwrap(Unwrap(Doc.channels)["chat"].messages)
    /\ "join" \in DOMAIN Unwrap(Unwrap(Doc.components).messages)

\* the operation declares a channel that no channel block names
OnUndeclaredChannel(i) ==
    spec_meta.operations[i].channel \notin NamesOf(spec_meta.channels)

\* C28: the channels of the returned document are the declared channels,
\* whatever the operations are: an operation on an undeclared channel adds
\* no channel, and every name in the messages map of a channel comes from a
\* type listed by an operation that declares this very channel, so that the
\* types of an operation on an undeclared channel reach its own messages
\* list only.
C28_OperationsCreateNoChannel ==
    Returned =>
        /\ spec_meta.channels = <<>> => Doc.channels = None
        /\ spec_meta.channels # <<>> =>
            /\ Doc.channels # None
            /\ DOMAIN Unwrap(Doc.channels) = NamesOf(spec_meta.channels)
            /\ \A c \in DOMAIN Unwrap(Doc.channels) :
                LET refs == Unwrap(Doc.channels)[c].messages
                IN  refs # None =>
                        \A n \in DOMAIN Unwrap(refs) :
                            \E i \in DOMAIN spec_meta.operations :
                                /\ spec_meta.operations[i].channel = c
                                /\ \E t \in Range(spec_meta.operations[i].messages) :
                                        n \in Range(asyncapi_message_names(Registry[t]))
        /\ \A i \in DOMAIN spec_meta.operations :
            (OnUndeclaredChannel(i) /\ Surviving(i) /\ spec_meta.operations[i].messages # <<>>)
                => IsConcatenation(Unwrap(ProducedBy(i).messages),
                                   spec_meta.operations[i].messages)

\* C28 witness: chat is the only channel; an operation on news lists
\* SimpleMessage, which is in its own list and in no channel, while chat has
\* the messages of the operation on chat.
C28_Witness ==
    /\ Returned
    /\ spec_meta.channels = <<Chat>>
    /\ DOMAIN Unwrap(Doc.channels) = {"chat"}
    /\ Len(spec_meta.operations) = 2
    /\ spec_meta.operations[1].channel = "chat"
    /\ spec_meta.operations[1].messages = <<"ChatMessage">>
    /\ spec_meta.operations[2].channel = "news"
    /\ spec_meta.operations[2].messages = <<"SimpleMessage", "ChatMessage">>
    /\ Unwrap(ProducedBy(2).messages)[1].reference = "#/components/messages/SimpleMessage"
    /\ DOMAIN Unwrap(Unwrap(Doc.channels)["chat"].messages) = {"join", "leave"}

\* the messages of the compile errors of the expansion
ReportedMessages == {expansion.errors[e].message : e \in DOMAIN expansion.errors}

HasInvalidAction ==
    \E i \in DOMAIN spec_meta.operations :
        spec_meta.operations[i].action \notin {"send", "receive"}

\* C29: the title is checked first, then the version, then the actions: a
\* spec without a title reports the missing title and nothing else, whatever
\* its version and actions; a spec with a title and no version reports the
\* missing version and nothing else; an invalid action is reported when, and
\* only when, title and version are both there.
C29_ValidationOrder ==
    expansion.status = "expanded" =>
        /\ spec_meta.title = None => ReportedMessages = {TitleRequired}
        /\ (spec_meta.title # None /\ spec_meta.version = None) =>
                ReportedMessages = {VersionRequired}
        /\ (spec_meta.title # None /\ spec_meta.version # None) =>
                ReportedMessages = (IF HasInvalidAction THEN {InvalidAction} ELSE {})

\* C29 witness: a spec without title and version that has an operation with
\* the action broadcast has expanded to the missing-title error alone.
C29_Witness ==
    /\ expansion.status = "expanded"
    /\ spec_meta.title = None
    /\ spec_meta.version = None
    /\ HasInvalidAction
    /\ Len(expansion.errors) = 1
    /\ expansion.errors[1].message = TitleRequired

\* C30: asyncapi_messages() returns as many messages as
\* asyncapi_message_names() returns names; message i has the i-th name and
\* the summary, description, title and content type of declaration i, also
\* when two declarations have the same name and when it has no payload.
C30_MessagesAlignedWithNames ==
    messages.status = "returned" =>
        /\ Len(Messages) = Len(derived.message_names)
        /\ Len(Messages) = derived.message_count
        /\ \A i \in DOMAIN Messages :
            /\ Messages[i].name = Some(derived.message_names[i])
            /\ Messages[i].summary = DeclarationMeta(i).summary
            /\ Messages[i].description = DeclarationMeta(i).description
            /\ Messages[i].title =
                    Some(unwrap_or(DeclarationMeta(i).title, derived.message_names[i]))
            /\ Messages[i].content_type =
                    Some(unwrap_or(DeclarationMeta(i).content_type,
                                   IF DeclarationMeta(i).triggers_binary
                                   THEN "application/octet-stream" ELSE "application/json"))

\* C30 witness: two variants are both named join; the first message has no
\* summary and the second has the summary of the second variant, and neither
\* has a payload.
C30_Witness ==
    /\ messages.status = "returned"
    /\ Len(Messages) = 2
    /\ Messages[1].name = Some("join")
    /\ Messages[2].name = Some("join")
    /\ Messages[1].summary = None
    /\ Messages[2].summary = Some("User leaves a chat room")
    /\ Messages[1].title = Some("join")
    /\ Messages[2].title = Some("Leave Room")
    /\ Messages[2].payload = None

====
